---- MODULE Spec2Model ----
(***************************************************************************)
(* Access-control core of the home-camera monitoring product: the identity *)
(* store, the session tracker, the role-gated administrative operations    *)
(* and the can_view_camera decision function.                              *)
(*                                                                         *)
(* The repository holds two revisions of the core:                         *)
(*   - class AuthManager          (src/CS 410 project/auth.py), the one    *)
(*     app.py instantiates;                                                *)
(*   - module-level functions over the USERS dict (src/auth.py).           *)
(* Definitions of the first keep the source's names; definitions of the    *)
(* second carry the prefix "dict_".                                        *)
(***************************************************************************)
EXTENDS Integers, Sequences, FiniteSets, TLC

VARIABLES
    users,                  \* AuthManager._users / USERS: email -> user record
    current_user_email,     \* AuthManager._current_user_email / _CURRENT_USER_EMAIL
    session_user_email,     \* app.py: session["user_email"] of one browser
    resolved,               \* a caller's local `user`: the User object it resolved
    last                    \* the last call made: its name, arguments and result

vars == <<users, current_user_email, session_user_email, resolved, last>>

----------------------------------------------------------------------------
(* Bounds of the model *)

\* access_start / access_end are drawn from 0..MaxTime
MaxTime == 1

----------------------------------------------------------------------------
(* Values *)

ROLE_ADMIN == "admin"
ROLE_HOMEOWNER == "homeowner"
ROLE_FAMILY == "family"
ROLE_GUEST == "guest"

\* Python's None, for Optional[str]
None == "<None>"
\* Python's None, for Optional[int]; an int n is the one-element sequence <<n>>
NoneInt == <<>>
Int_(n) == <<n>>
\* Python's None, for Optional[User]
NoUser == [none |-> TRUE]

HomeownerEmail == "homeowner@gmail.com"
AdminEmail == "admin@system.local"
\* the e-mail addresses that are registered after bootstrap
NewEmails == {"g@x.com"}
Emails == {HomeownerEmail, AdminEmail} \cup NewEmails

\* the roles handed to admin_create_user: the four constants and a string
\* that is none of them (the parameter is an unchecked str)
RoleArgs == {ROLE_ADMIN, ROLE_HOMEOWNER, ROLE_FAMILY, ROLE_GUEST, "visitor"}
\* the passwords handed to admin_create_user and homeowner_create_guest
NewPasswords == {"p"}
\* the passwords handed to homeowner_share_camera_with_family
SharePasswords == {"q"}
\* the passwords typed at login (None: the parameter left at its default)
LoginPasswords == {None, "password123", "admin123", "p", "q"}
\* the camera lists handed to the homeowner operations
CameraLists == {<<"backyard">>, <<"front_door", "garage">>}
Times == 0..MaxTime

\* x in list (Python's `in` on a list)
In(x, list) == \E i \in DOMAIN list : list[i] = x

\* dataclass User with its defaults
User(email, password, role) ==
    [email |-> email, password |-> password, role |-> role, active |-> TRUE,
     cameras |-> <<>>, allowed_cameras |-> <<>>,
     access_start |-> NoneInt, access_end |-> NoneInt]

----------------------------------------------------------------------------
(* Results of a call: a returned value or a raised exception *)

Return(v) == [exc |-> "", msg |-> "", value |-> v]
Raise(exc, msg) == [exc |-> exc, msg |-> msg, value |-> None]

\* what a call leaves behind: the store, the session pointer, and its result
Outcome(us, cur, ret) == [users |-> us, current |-> cur, ret |-> ret]

----------------------------------------------------------------------------
(* Session tracker *)

\* dict.get(email) on a store
users_get(us, email) == IF email \in DOMAIN us THEN us[email] ELSE NoUser

\* current_user without the test of the active flag
current_user_of_ignoring_active(us, cur) ==
    IF cur = None THEN NoUser ELSE users_get(us, cur)

\* AuthManager.current_user, on a given store and session pointer
current_user_of(us, cur) ==
    IF cur = None THEN NoUser
    ELSE LET user == users_get(us, cur)
         IN  IF user = NoUser \/ ~user.active THEN NoUser ELSE user

current_user == current_user_of(users, current_user_email)

\* login_user that leaves the session as it was when the login fails
login_user_keeping_session(email, password) ==
    LET user == users_get(users, email)
    IN  IF user = NoUser \/ ~user.active
        THEN Outcome(users, current_user_email, Return(FALSE))
        ELSE IF password # None /\ password # user.password
        THEN Outcome(users, current_user_email, Return(FALSE))
        ELSE Outcome(users, email, Return(TRUE))

\* AuthManager.login_user
login_user(email, password) ==
    LET user == users_get(users, email)
    IN  IF user = NoUser \/ ~user.active
        THEN Outcome(users, None, Return(FALSE))
        ELSE IF password # None /\ password # user.password
        THEN Outcome(users, None, Return(FALSE))
        ELSE Outcome(users, email, Return(TRUE))

\* logout_user that leaves the session pointer as it is
logout_user_keeping_session == Outcome(users, current_user_email, Return(None))

\* AuthManager.logout_user
logout_user == Outcome(users, None, Return(None))

\* AuthManager.login_req
login_req ==
    IF current_user = NoUser
    THEN Outcome(users, current_user_email,
                 Raise("PermissionError", "Authentication required."))
    ELSE Outcome(users, current_user_email, Return(current_user))

----------------------------------------------------------------------------
(* Role helpers *)

has_role(user, role) == user # NoUser /\ user.role = role
is_admin(user) == has_role(user, ROLE_ADMIN)
is_homeowner(user) == has_role(user, ROLE_HOMEOWNER)
is_family(user) == has_role(user, ROLE_FAMILY)
is_guest(user) == has_role(user, ROLE_GUEST)

\* self._users[email] = user
Put(us, email, user) ==
    [e \in DOMAIN us \cup {email} |-> IF e = email THEN user ELSE us[e]]
\* del self._users[email]
Del(us, email) == [e \in DOMAIN us \ {email} |-> us[e]]

----------------------------------------------------------------------------
(* Admin actions *)

\* admin_create_user without the test for an existing e-mail
admin_create_user_overwriting(email, password, role) ==
    IF ~is_admin(current_user)
    THEN Outcome(users, current_user_email,
                 Raise("PermissionError", "Only administrators can create users."))
    ELSE LET user == User(email, password, role)
         IN  Outcome(Put(users, email, user), current_user_email, Return(user))

\* admin_create_user without the test of the caller's role
admin_create_user_by_anyone(email, password, role) ==
    IF email \in DOMAIN users
    THEN Outcome(users, current_user_email,
                 Raise("ValueError", "User already exists."))
    ELSE LET user == User(email, password, role)
         IN  Outcome(Put(users, email, user), current_user_email, Return(user))

admin_create_user(email, password, role) ==
    IF ~is_admin(current_user)
    THEN Outcome(users, current_user_email,
                 Raise("PermissionError", "Only administrators can create users."))
    ELSE IF email \in DOMAIN users
    THEN Outcome(users, current_user_email,
                 Raise("ValueError", "User already exists."))
    ELSE LET user == User(email, password, role)
         IN  Outcome(Put(users, email, user), current_user_email, Return(user))

admin_deactivate_user(email) ==
    IF ~is_admin(current_user)
    THEN Outcome(users, current_user_email,
                 Raise("PermissionError", "Only administrators can deactivate users."))
    ELSE LET user == users_get(users, email)
         IN  IF user = NoUser
             THEN Outcome(users, current_user_email,
                          Raise("ValueError", "User not found."))
             ELSE LET u2 == [user EXCEPT !.active = FALSE]
                  IN  Outcome(Put(users, email, u2), current_user_email, Return(u2))

\* admin_delete_user that looks the target up before it tests the caller's role
admin_delete_user_lookup_first(email) ==
    IF email \notin DOMAIN users
    THEN Outcome(users, current_user_email,
                 Raise("ValueError", "User not found."))
    ELSE IF ~is_admin(current_user)
    THEN Outcome(users, current_user_email,
                 Raise("PermissionError", "Only administrators can delete users."))
    ELSE Outcome(Del(users, email), current_user_email, Return(None))

admin_delete_user(email) ==
    IF ~is_admin(current_user)
    THEN Outcome(users, current_user_email,
                 Raise("PermissionError", "Only administrators can delete users."))
    ELSE IF email \notin DOMAIN users
    THEN Outcome(users, current_user_email,
                 Raise("ValueError", "User not found."))
    ELSE Outcome(Del(users, email), current_user_email, Return(None))

----------------------------------------------------------------------------
(* Homeowner actions *)

\* homeowner_create_guest without the test for an existing e-mail
homeowner_create_guest_overwriting(guest_email, password, allowed_cameras, access_start, access_end) ==
    IF ~is_homeowner(current_user)
    THEN Outcome(users, current_user_email,
                 Raise("PermissionError", "Only homeowners can create guest users."))
    ELSE LET guest == [User(guest_email, password, ROLE_GUEST) EXCEPT
                          !.allowed_cameras = allowed_cameras,
                          !.access_start = Int_(access_start),
                          !.access_end = Int_(access_end)]
         IN  Outcome(Put(users, guest_email, guest), current_user_email, Return(guest))

homeowner_create_guest(guest_email, password, allowed_cameras, access_start, access_end) ==
    IF ~is_homeowner(current_user)
    THEN Outcome(users, current_user_email,
                 Raise("PermissionError", "Only homeowners can create guest users."))
    ELSE IF guest_email \in DOMAIN users
    THEN Outcome(users, current_user_email,
                 Raise("ValueError", "Guest email already exists."))
    ELSE LET guest == [User(guest_email, password, ROLE_GUEST) EXCEPT
                          !.allowed_cameras = allowed_cameras,
                          !.access_start = Int_(access_start),
                          !.access_end = Int_(access_end)]
         IN  Outcome(Put(users, guest_email, guest), current_user_email, Return(guest))

\* homeowner_share_camera_with_family that builds a new record on the
\* overwrite path too, keeping only the stored password
homeowner_share_camera_with_family_rebuilding(family_email, password, allowed_cameras) ==
    IF ~is_homeowner(current_user)
    THEN Outcome(users, current_user_email,
                 Raise("PermissionError", "Only homeowners can manage family accounts."))
    ELSE LET member ==
                 IF family_email \in DOMAIN users
                 THEN [User(family_email, users[family_email].password, ROLE_FAMILY) EXCEPT
                          !.allowed_cameras = allowed_cameras]
                 ELSE [User(family_email, password, ROLE_FAMILY) EXCEPT
                          !.allowed_cameras = allowed_cameras]
         IN  Outcome(Put(users, family_email, member), current_user_email, Return(member))

\* homeowner_share_camera_with_family that stores the supplied password on
\* the overwrite path too
homeowner_share_camera_with_family_setting_password(family_email, password, allowed_cameras) ==
    IF ~is_homeowner(current_user)
    THEN Outcome(users, current_user_email,
                 Raise("PermissionError", "Only homeowners can manage family accounts."))
    ELSE LET member ==
                 IF family_email \in DOMAIN users
                 THEN [users[family_email] EXCEPT
                          !.role = ROLE_FAMILY,
                          !.password = password,
                          !.allowed_cameras = allowed_cameras]
                 ELSE [User(family_email, password, ROLE_FAMILY) EXCEPT
                          !.allowed_cameras = allowed_cameras]
         IN  Outcome(Put(users, family_email, member), current_user_email, Return(member))

homeowner_share_camera_with_family(family_email, password, allowed_cameras) ==
    IF ~is_homeowner(current_user)
    THEN Outcome(users, current_user_email,
                 Raise("PermissionError", "Only homeowners can manage family accounts."))
    ELSE LET member ==
                 IF family_email \in DOMAIN users
                 THEN [users[family_email] EXCEPT
                          !.role = ROLE_FAMILY,
                          !.allowed_cameras = allowed_cameras]
                 ELSE [User(family_email, password, ROLE_FAMILY) EXCEPT
                          !.allowed_cameras = allowed_cameras]
         IN  Outcome(Put(users, family_email, member), current_user_email, Return(member))

----------------------------------------------------------------------------
(* Permission checks *)

Allow(reason) == [allowed |-> TRUE, reason |-> reason]
Deny(reason) == [allowed |-> FALSE, reason |-> reason]

\* Python's truth value of an Optional[int]: None and 0 are false
Truthy(x) == x # NoneInt /\ x[1] # 0

\* no return statement reached: control passes to the next statement
FallThrough == [fallthrough |-> TRUE]

\* view_homeowner with the camera test applied to "settings" as well
view_homeowner_settings_owned(user, camera_id, action) ==
    IF action \in {"live", "playback", "settings"}
    THEN IF In(camera_id, user.cameras)
         THEN Allow("Homeowner access granted.")
         ELSE Deny("Camera not part of your system.")
    ELSE IF action = "user_mgmt"
    THEN Deny("User management allowed only for admin.")
    ELSE FallThrough

\* AuthManager.can_view_camera, the body of `if user.role == ROLE_HOMEOWNER`
view_homeowner(user, camera_id, action) ==
    IF action \in {"live", "playback"}
    THEN IF In(camera_id, user.cameras)
         THEN Allow("Homeowner access granted.")
         ELSE Deny("Camera not part of your system.")
    ELSE IF action = "settings"
    THEN Allow("Homeowner may modify settings.")
    ELSE IF action = "user_mgmt"
    THEN Deny("User management allowed only for admin.")
    ELSE FallThrough

\* view_family with the action tested before the camera
view_family_action_first(user, camera_id, action) ==
    IF action = "live"
    THEN Allow("Family member live-view allowed.")
    ELSE IF ~In(camera_id, user.allowed_cameras)
    THEN Deny("This camera is not shared with you.")
    ELSE Deny("Family accounts cannot view playback or change settings.")

\* AuthManager.can_view_camera, the body of `if user.role == ROLE_FAMILY`
view_family(user, camera_id, action) ==
    IF ~In(camera_id, user.allowed_cameras)
    THEN Deny("This camera is not shared with you.")
    ELSE IF action = "live"
    THEN Allow("Family member live-view allowed.")
    ELSE Deny("Family accounts cannot view playback or change settings.")

\* AuthManager.can_view_camera, the body of `if user.role == ROLE_GUEST`
view_guest(user, camera_id, current_time, action) ==
    IF ~In(camera_id, user.allowed_cameras)
    THEN Deny("This guest invite does not include this camera.")
    ELSE IF Truthy(user.access_start) /\ current_time < user.access_start[1]
    THEN Deny("Guest access not started.")
    ELSE IF Truthy(user.access_end) /\ current_time > user.access_end[1]
    THEN Deny("Guest access expired.")
    ELSE IF action = "live"
    THEN Allow("Guest live-view allowed within time window.")
    ELSE Deny("Guests cannot access playback or settings.")

\* can_view_camera with the Admin rule ahead of the logged-in test
can_view_camera_admin_first(user, camera_id, current_time, action) ==
    IF user # NoUser /\ user.role = ROLE_ADMIN
    THEN Allow("Administrator access granted.")
    ELSE IF user = NoUser \/ ~user.active
    THEN Deny("You must be logged in.")
    ELSE IF user.role = ROLE_HOMEOWNER
            /\ view_homeowner(user, camera_id, action) # FallThrough
    THEN view_homeowner(user, camera_id, action)
    ELSE IF user.role = ROLE_FAMILY
    THEN view_family(user, camera_id, action)
    ELSE IF user.role = ROLE_GUEST
    THEN view_guest(user, camera_id, current_time, action)
    ELSE Deny("Unknown role - access denied.")

\* can_view_camera whose Admin rule holds for the four named actions only
can_view_camera_admin_named_actions(user, camera_id, current_time, action) ==
    IF user = NoUser \/ ~user.active
    THEN Deny("You must be logged in.")
    ELSE IF user.role = ROLE_ADMIN
            /\ action \in {"live", "playback", "settings", "user_mgmt"}
    THEN Allow("Administrator access granted.")
    ELSE IF user.role = ROLE_HOMEOWNER
            /\ view_homeowner(user, camera_id, action) # FallThrough
    THEN view_homeowner(user, camera_id, action)
    ELSE IF user.role = ROLE_FAMILY
    THEN view_family(user, camera_id, action)
    ELSE IF user.role = ROLE_GUEST
    THEN view_guest(user, camera_id, current_time, action)
    ELSE Deny("Unknown role - access denied.")

\* can_view_camera whose last return allows
can_view_camera_default_allow(user, camera_id, current_time, action) ==
    IF user = NoUser \/ ~user.active
    THEN Deny("You must be logged in.")
    ELSE IF user.role = ROLE_ADMIN
    THEN Allow("Administrator access granted.")
    ELSE IF user.role = ROLE_HOMEOWNER
            /\ view_homeowner(user, camera_id, action) # FallThrough
    THEN view_homeowner(user, camera_id, action)
    ELSE IF user.role = ROLE_FAMILY
    THEN view_family(user, camera_id, action)
    ELSE IF user.role = ROLE_GUEST
    THEN view_guest(user, camera_id, current_time, action)
    ELSE Allow("Unknown role - access denied.")

\* AuthManager.can_view_camera.  A Homeowner whose action matches none of the
\* three tests falls through the Family and Guest tests to the last return
\* (whose text holds a dash that is written "-" here).
can_view_camera(user, camera_id, current_time, action) ==
    IF user = NoUser \/ ~user.active
    THEN Deny("You must be logged in.")
    ELSE IF user.role = ROLE_ADMIN
    THEN Allow("Administrator access granted.")
    ELSE IF user.role = ROLE_HOMEOWNER
            /\ view_homeowner(user, camera_id, action) # FallThrough
    THEN view_homeowner(user, camera_id, action)
    ELSE IF user.role = ROLE_FAMILY
    THEN view_family(user, camera_id, action)
    ELSE IF user.role = ROLE_GUEST
    THEN view_guest(user, camera_id, current_time, action)
    ELSE Deny("Unknown role - access denied.")

----------------------------------------------------------------------------
(* The state machine of one AuthManager *)

\* AuthManager.__init__ with _bootstrap_default_users
\* a bootstrap whose Homeowner owns two cameras only
BootstrapUsers_two_cameras ==
    LET homeowner == [User(HomeownerEmail, "password123", ROLE_HOMEOWNER) EXCEPT
                         !.cameras = <<"front_door", "backyard">>]
        admin == User(AdminEmail, "admin123", ROLE_ADMIN)
    IN  Put(Put(<<>>, HomeownerEmail, homeowner), AdminEmail, admin)

BootstrapUsers ==
    LET homeowner == [User(HomeownerEmail, "password123", ROLE_HOMEOWNER) EXCEPT
                         !.cameras = <<"front_door", "backyard", "basement">>]
        admin == User(AdminEmail, "admin123", ROLE_ADMIN)
    IN  Put(Put(<<>>, HomeownerEmail, homeowner), AdminEmail, admin)

\* A User is an object: a caller that has resolved one holds a reference to
\* it.  While the object is in the store (attached) the caller sees every
\* assignment made to its attributes; once `del self._users[email]` has
\* removed it the object lives on as it was, and a record made later under
\* the same e-mail is another object.
NoRef == [attached |-> FALSE, user |-> NoUser]

Ref(user) == [attached |-> TRUE, user |-> user]

\* the held object after a call that leaves the store as us
Rebind(ref, us) ==
    IF ~ref.attached
    THEN ref
    ELSE IF ref.user.email \in DOMAIN us
    THEN [ref EXCEPT !.user = us[ref.user.email]]
    ELSE [ref EXCEPT !.attached = FALSE]

NoCall == [op |-> "", email |-> None, prev |-> None, ret |-> Return(None)]

Init ==
    /\ users = BootstrapUsers
    /\ current_user_email = None
    /\ session_user_email = None
    /\ resolved = NoRef
    /\ last = NoCall

\* a call of operation op on email takes effect
Do(op, email, o) ==
    /\ users' = o.users
    /\ current_user_email' = o.current
    /\ last' = [op |-> op, email |-> email, prev |-> current_user_email, ret |-> o.ret]
    /\ resolved' = Rebind(resolved, o.users)
    /\ UNCHANGED session_user_email

\* the e-mail addresses handed to the creating operations: an address already
\* in the store (the duplicate and overwrite paths) or one of NewEmails; a
\* deleted bootstrap address is not registered again
CreateEmails == DOMAIN users \cup NewEmails

LoginUser ==
    \E email \in Emails, password \in LoginPasswords :
        Do("login_user", email, login_user(email, password))

LogoutUser == Do("logout_user", None, logout_user)

LoginReq == Do("login_req", None, login_req)

AdminCreateUser ==
    \E email \in CreateEmails, password \in NewPasswords, role \in RoleArgs :
        Do("admin_create_user", email, admin_create_user(email, password, role))

AdminDeactivateUser ==
    \E email \in Emails :
        Do("admin_deactivate_user", email, admin_deactivate_user(email))

AdminDeleteUser ==
    \E email \in Emails :
        Do("admin_delete_user", email, admin_delete_user(email))

HomeownerCreateGuest ==
    \E email \in CreateEmails, password \in NewPasswords, cams \in CameraLists,
       access_start \in Times, access_end \in Times :
        Do("homeowner_create_guest", email,
           homeowner_create_guest(email, password, cams, access_start, access_end))

HomeownerShareCameraWithFamily ==
    \E email \in CreateEmails, password \in SharePasswords, cams \in CameraLists :
        Do("homeowner_share_camera_with_family", email,
           homeowner_share_camera_with_family(email, password, cams))

Next ==
    \/ LoginUser
    \/ LogoutUser
    \/ LoginReq
    \/ AdminCreateUser
    \/ AdminDeactivateUser
    \/ AdminDeleteUser
    \/ HomeownerCreateGuest
    \/ HomeownerShareCameraWithFamily

Spec == Init /\ [][Next]_vars

----------------------------------------------------------------------------
(* Permission checks as a caller makes them: can_view_camera on a user       *)
(* snapshot taken from the store (app.py: auth_manager._users.get(email))   *)
(* or on None                                                                *)

Cameras == {"front_door", "backyard", "garage"}
\* "delete" is an action outside the four the functions name
Actions == {"live", "playback", "settings", "user_mgmt", "delete"}
NowTimes == (0 - 1)..(MaxTime + 1)

Snapshots == {NoUser} \cup {users[e] : e \in DOMAIN users}

ViewCall(op, user, camera_id, current_time, action, result) ==
    [op |-> op, email |-> None, prev |-> current_user_email,
     ret |-> Return(result), user |-> user, camera_id |-> camera_id,
     current_time |-> current_time, action |-> action]

CanViewCamera ==
    \E user \in Snapshots, camera_id \in Cameras, current_time \in NowTimes,
       action \in Actions :
        /\ last' = ViewCall("can_view_camera", user, camera_id, current_time, action,
                            can_view_camera(user, camera_id, current_time, action))
        /\ UNCHANGED <<users, current_user_email, session_user_email, resolved>>

----------------------------------------------------------------------------
(* The older revision: module-level functions over the USERS dict           *)
(* (src/auth.py).  A user is a dict; a key that a record does not hold is   *)
(* held here with the default every reader gives it (user.get(key,          *)
(* default)): [] for "cameras" and "allowed_cameras", None for              *)
(* "access_start" and "access_end".                                         *)

DictUser(password, role) ==
    [password |-> password, role |-> role, active |-> TRUE,
     cameras |-> <<>>, allowed_cameras |-> <<>>,
     access_start |-> NoneInt, access_end |-> NoneInt]

\* USERS as the module defines it
USERS ==
    LET homeowner == [DictUser("password123", ROLE_HOMEOWNER) EXCEPT
                         !.cameras = <<"front_door", "backyard", "basement">>]
        admin == DictUser("admin123", ROLE_ADMIN)
    IN  Put(Put(<<>>, HomeownerEmail, homeowner), AdminEmail, admin)

\* login_user(email): the last statement returns False
dict_login_user(email) ==
    LET user == users_get(users, email)
    IN  IF user = NoUser
        THEN Outcome(users, None, Return(FALSE))
        ELSE IF ~user.active
        THEN Outcome(users, None, Return(FALSE))
        ELSE Outcome(users, email, Return(FALSE))

dict_logout_user == Outcome(users, None, Return(None))

dict_current_user ==
    IF current_user_email = None THEN NoUser
    ELSE LET user == users_get(users, current_user_email)
         IN  IF user = NoUser \/ ~user.active THEN NoUser ELSE user

dict_login_req ==
    IF dict_current_user = NoUser
    THEN Outcome(users, current_user_email,
                 Raise("PermissionError", "Authentication required."))
    ELSE Outcome(users, current_user_email, Return(dict_current_user))

dict_has_role(user, role) == user # NoUser /\ user.role = role
dict_is_admin(user) == dict_has_role(user, ROLE_ADMIN)
dict_is_homeowner(user) == dict_has_role(user, ROLE_HOMEOWNER)

dict_admin_create_user(email, password, role) ==
    IF ~dict_is_admin(dict_current_user)
    THEN Outcome(users, current_user_email,
                 Raise("PermissionError", "Only administrators can create users."))
    ELSE IF email \in DOMAIN users
    THEN Outcome(users, current_user_email,
                 Raise("ValueError", "User already exists."))
    ELSE LET user == DictUser(password, role)
         IN  Outcome(Put(users, email, user), current_user_email, Return(user))

dict_admin_deactivate_user(email) ==
    IF ~dict_is_admin(dict_current_user)
    THEN Outcome(users, current_user_email,
                 Raise("PermissionError", "Only administrators can deactivate users."))
    ELSE LET user == users_get(users, email)
         IN  IF user = NoUser
             THEN Outcome(users, current_user_email,
                          Raise("ValueError", "User not found."))
             ELSE LET u2 == [user EXCEPT !.active = FALSE]
                  IN  Outcome(Put(users, email, u2), current_user_email, Return(u2))

dict_admin_delete_user(email) ==
    IF ~dict_is_admin(dict_current_user)
    THEN Outcome(users, current_user_email,
                 Raise("PermissionError", "Only administrators can delete users."))
    ELSE IF email \notin DOMAIN users
    THEN Outcome(users, current_user_email,
                 Raise("ValueError", "User not found."))
    ELSE Outcome(Del(users, email), current_user_email, Return(None))

dict_homeowner_create_guest(guest_email, password, allowed_cameras, access_start, access_end) ==
    IF ~dict_is_homeowner(dict_current_user)
    THEN Outcome(users, current_user_email,
                 Raise("PermissionError", "Only homeowners can create guest users."))
    ELSE IF guest_email \in DOMAIN users
    THEN Outcome(users, current_user_email,
                 Raise("ValueError", "Guest email already exists as a user."))
    ELSE LET guest == [DictUser(password, ROLE_GUEST) EXCEPT
                          !.allowed_cameras = allowed_cameras,
                          !.access_start = Int_(access_start),
                          !.access_end = Int_(access_end)]
         IN  Outcome(Put(users, guest_email, guest), current_user_email, Return(guest))

dict_homeowner_share_camera_with_family(family_email, password, allowed_cameras) ==
    IF ~dict_is_homeowner(dict_current_user)
    THEN Outcome(users, current_user_email,
                 Raise("PermissionError", "Only homeowners can manage family access."))
    ELSE LET member ==
                 IF family_email \in DOMAIN users
                 THEN [users[family_email] EXCEPT
                          !.role = ROLE_FAMILY,
                          !.allowed_cameras = allowed_cameras]
                 ELSE [DictUser(password, ROLE_FAMILY) EXCEPT
                          !.allowed_cameras = allowed_cameras]
         IN  Outcome(Put(users, family_email, member), current_user_email, Return(member))

\* can_view_camera, the body of `if role == ROLE_HOMEOWNER`
dict_view_homeowner(user, camera_id, action) ==
    IF action \in {"live", "playback"}
    THEN IF In(camera_id, user.cameras)
         THEN Allow("Homeowner access granted.")
         ELSE Deny("Camera not part of this homeowner's account.")
    ELSE IF action \in {"settings", "user_mgmt"}
    THEN IF action = "user_mgmt"
         THEN Deny("User management is restricted to administrators.")
         ELSE Allow("Homeowner can change camera settings.")
    ELSE FallThrough

\* can_view_camera, the body of `if role == ROLE_FAMILY`
dict_view_family(user, camera_id, action) ==
    IF ~In(camera_id, user.allowed_cameras)
    THEN Deny("This camera has not been shared with your account.")
    ELSE IF action = "live"
    THEN Allow("Family member can view this live feed.")
    ELSE IF action \in {"playback", "settings", "user_mgmt"}
    THEN Deny("Family members cannot view playback, change settings, or manage users.")
    ELSE FallThrough

\* can_view_camera, the body of `if role == ROLE_GUEST`
dict_view_guest(user, camera_id, current_time, action) ==
    IF ~In(camera_id, user.allowed_cameras)
    THEN Deny("This guest invite does not include that camera.")
    ELSE IF user.access_start # NoneInt /\ current_time < user.access_start[1]
    THEN Deny("Guest access has not started yet.")
    ELSE IF user.access_end # NoneInt /\ current_time > user.access_end[1]
    THEN Deny("Guest access has expired.")
    ELSE IF action = "live"
    THEN Allow("Guest can view this camera during the invite window.")
    ELSE IF action \in {"playback", "settings", "user_mgmt"}
    THEN Deny("Guests cannot access video playback, system settings, or user management.")
    ELSE FallThrough

\* can_view_camera(user, camera_id, current_time, action).  A branch whose
\* tests all fail passes control to the following `if role ==` tests, which
\* fail too, and on to the last return.
dict_can_view_camera(user, camera_id, current_time, action) ==
    IF user = NoUser \/ ~user.active
    THEN Deny("You must be logged in.")
    ELSE IF user.role = ROLE_ADMIN
    THEN Allow("Administrator access granted.")
    ELSE IF user.role = ROLE_HOMEOWNER
            /\ dict_view_homeowner(user, camera_id, action) # FallThrough
    THEN dict_view_homeowner(user, camera_id, action)
    ELSE IF user.role = ROLE_FAMILY
            /\ dict_view_family(user, camera_id, action) # FallThrough
    THEN dict_view_family(user, camera_id, action)
    ELSE IF user.role = ROLE_GUEST
            /\ dict_view_guest(user, camera_id, current_time, action) # FallThrough
    THEN dict_view_guest(user, camera_id, current_time, action)
    ELSE Deny("Access denied for this user role.")

(* The state machine of the module *)

DictInit ==
    /\ users = USERS
    /\ current_user_email = None
    /\ session_user_email = None
    /\ resolved = NoRef
    /\ last = NoCall

DictLoginUser ==
    \E email \in Emails : Do("login_user", email, dict_login_user(email))

DictLogoutUser == Do("logout_user", None, dict_logout_user)

DictLoginReq == Do("login_req", None, dict_login_req)

DictAdminCreateUser ==
    \E email \in CreateEmails, password \in NewPasswords, role \in RoleArgs :
        Do("admin_create_user", email, dict_admin_create_user(email, password, role))

DictAdminDeactivateUser ==
    \E email \in Emails :
        Do("admin_deactivate_user", email, dict_admin_deactivate_user(email))

DictAdminDeleteUser ==
    \E email \in Emails :
        Do("admin_delete_user", email, dict_admin_delete_user(email))

DictHomeownerCreateGuest ==
    \E email \in CreateEmails, password \in NewPasswords, cams \in CameraLists,
       access_start \in Times, access_end \in Times :
        Do("homeowner_create_guest", email,
           dict_homeowner_create_guest(email, password, cams, access_start, access_end))

DictHomeownerShareCameraWithFamily ==
    \E email \in CreateEmails, password \in SharePasswords, cams \in CameraLists :
        Do("homeowner_share_camera_with_family", email,
           dict_homeowner_share_camera_with_family(email, password, cams))

DictNext ==
    \/ DictLoginUser
    \/ DictLogoutUser
    \/ DictLoginReq
    \/ DictAdminCreateUser
    \/ DictAdminDeactivateUser
    \/ DictAdminDeleteUser
    \/ DictHomeownerCreateGuest
    \/ DictHomeownerShareCameraWithFamily

DictSpec == DictInit /\ [][DictNext]_vars

DictCanViewCamera ==
    \E user \in Snapshots, camera_id \in Cameras, current_time \in NowTimes,
       action \in Actions :
        /\ last' = ViewCall("dict_can_view_camera", user, camera_id, current_time, action,
                            dict_can_view_camera(user, camera_id, current_time, action))
        /\ UNCHANGED <<users, current_user_email, session_user_email, resolved>>

----------------------------------------------------------------------------
(* The permission engine on its own: can_view_camera is a pure function of  *)
(* (user, camera_id, current_time, action).  The store holds one user       *)
(* record of any shape the User type allows, or none, and each revision of *)
(* the function is applied to it once.                                      *)

OptTimes == {NoneInt} \cup {Int_(t) : t \in Times}

UserRecords ==
    [email : {"u@x.com"}, password : {"p"}, role : RoleArgs, active : BOOLEAN,
     cameras : {<<>>, <<"front_door", "backyard", "basement">>},
     allowed_cameras : {<<>>} \cup CameraLists,
     access_start : OptTimes, access_end : OptTimes]

PermInit ==
    /\ users \in {<<>>} \cup {Put(<<>>, u.email, u) : u \in UserRecords}
    /\ current_user_email = None
    /\ session_user_email = None
    /\ resolved = NoRef
    /\ last = NoCall

\* one application of a revision of the function to the inputs drawn
PermCanViewCamera == last = NoCall /\ CanViewCamera
PermDictCanViewCamera == last = NoCall /\ DictCanViewCamera

PermNext ==
    \/ PermCanViewCamera
    \/ PermDictCanViewCamera

PermSpec == PermInit /\ [][PermNext]_vars

----------------------------------------------------------------------------
(* Properties of the permission engine (PermSpec)                           *)

\* the last call is a permission check
IsView == last.op \in {"can_view_camera", "dict_can_view_camera"}
\* ... on a user that is logged in (present and active) with the given role
IsViewBy(role) ==
    /\ IsView
    /\ last.user # NoUser
    /\ last.user.active
    /\ last.user.role = role
\* the revision named op applied to the given inputs
ViewOf(op, user, camera_id, current_time, action) ==
    IF op = "can_view_camera"
    THEN can_view_camera(user, camera_id, current_time, action)
    ELSE dict_can_view_camera(user, camera_id, current_time, action)
\* the decision of the last call
Allowed == last.ret.value.allowed

\* C1: for a Guest with shared cameras S and access window [s, e], the check
\* is allowed exactly when action = live, the camera is in S and
\* s <= now <= e, both ends included.  Stated of AuthManager.can_view_camera.
C1_GuestWindowExact ==
    (/\ last.op = "can_view_camera"
     /\ IsViewBy(ROLE_GUEST)
     /\ last.user.access_start # NoneInt
     /\ last.user.access_end # NoneInt)
    => (Allowed <=> (/\ last.action = "live"
                     /\ In(last.camera_id, last.user.allowed_cameras)
                     /\ last.user.access_start[1] <= last.current_time
                     /\ last.current_time <= last.user.access_end[1]))

\* C1, of the older revision's can_view_camera (it holds there)
C1_dict_GuestWindowExact ==
    (/\ last.op = "dict_can_view_camera"
     /\ IsViewBy(ROLE_GUEST)
     /\ last.user.access_start # NoneInt
     /\ last.user.access_end # NoneInt)
    => (Allowed <=> (/\ last.action = "live"
                     /\ In(last.camera_id, last.user.allowed_cameras)
                     /\ last.user.access_start[1] <= last.current_time
                     /\ last.current_time <= last.user.access_end[1]))

\* C2: a Guest bound that is present with value 0 is enforced: with
\* access_start = 0 every now < 0 is denied, with access_end = 0 every
\* now > 0 is denied, on a shared camera with action live.  Stated of
\* AuthManager.can_view_camera.
C2_ZeroBoundEnforced ==
    (/\ last.op = "can_view_camera"
     /\ IsViewBy(ROLE_GUEST)
     /\ In(last.camera_id, last.user.allowed_cameras)
     /\ last.action = "live")
    => /\ (last.user.access_start = Int_(0) /\ last.current_time < 0) => ~Allowed
       /\ (last.user.access_end = Int_(0) /\ last.current_time > 0) => ~Allowed

\* C2, of the older revision's can_view_camera (it holds there)
C2_dict_ZeroBoundEnforced ==
    (/\ last.op = "dict_can_view_camera"
     /\ IsViewBy(ROLE_GUEST)
     /\ In(last.camera_id, last.user.allowed_cameras)
     /\ last.action = "live")
    => /\ (last.user.access_start = Int_(0) /\ last.current_time < 0) => ~Allowed
       /\ (last.user.access_end = Int_(0) /\ last.current_time > 0) => ~Allowed

\* C8: for a user that is None or has active = false, of any role, every
\* camera, time and action is denied with the "must be logged in" reason
\* (both revisions).
C8_InactiveDenied ==
    (IsView /\ (last.user = NoUser \/ ~last.user.active))
    => last.ret.value = Deny("You must be logged in.")

\* C8 witness: an inactive Admin was denied
C8_Witness ==
    /\ last.op = "can_view_camera"
    /\ last.user # NoUser
    /\ ~last.user.active
    /\ last.user.role = ROLE_ADMIN
    /\ ~Allowed

\* C9: for an active Homeowner with owned cameras C, live and playback are
\* allowed iff the camera is in C, settings is allowed for every camera,
\* user_mgmt is denied for every camera, and the result is the same at every
\* time (both revisions).
C9_HomeownerRules ==
    IsViewBy(ROLE_HOMEOWNER)
    => /\ last.action \in {"live", "playback"}
            => (Allowed <=> In(last.camera_id, last.user.cameras))
       /\ last.action = "settings" => Allowed
       /\ last.action = "user_mgmt" => ~Allowed
       /\ \A t \in NowTimes :
            ViewOf(last.op, last.user, last.camera_id, t, last.action) = last.ret.value

\* C9 witness: a Homeowner was allowed settings on a camera it does not own
C9_Witness ==
    /\ last.op = "can_view_camera"
    /\ IsViewBy(ROLE_HOMEOWNER)
    /\ last.action = "settings"
    /\ last.user.cameras # <<>>
    /\ ~In(last.camera_id, last.user.cameras)
    /\ Allowed

\* the reason a revision gives a Family user for a camera outside its list
NotSharedReason(op) ==
    IF op = "can_view_camera"
    THEN "This camera is not shared with you."
    ELSE "This camera has not been shared with your account."

\* C10: for an active Family user with shared cameras S, the check is
\* allowed iff the camera is in S and action = live; a camera outside S is
\* denied for every action with the not-shared reason; and the result is the
\* same at every time and with any access_start / access_end on the record
\* (both revisions).
C10_FamilyRules ==
    IsViewBy(ROLE_FAMILY)
    => /\ Allowed <=> (In(last.camera_id, last.user.allowed_cameras)
                       /\ last.action = "live")
       /\ ~In(last.camera_id, last.user.allowed_cameras)
            => last.ret.value = Deny(NotSharedReason(last.op))
       /\ \A t \in NowTimes, s \in OptTimes, e \in OptTimes :
            ViewOf(last.op,
                   [last.user EXCEPT !.access_start = s, !.access_end = e],
                   last.camera_id, t, last.action) = last.ret.value

\* C10 witness: a Family user whose record carries a window that has not
\* started yet was allowed live view of a shared camera
C10_Witness ==
    /\ last.op = "can_view_camera"
    /\ IsViewBy(ROLE_FAMILY)
    /\ In(last.camera_id, last.user.allowed_cameras)
    /\ last.action = "live"
    /\ last.user.access_start # NoneInt
    /\ last.current_time < last.user.access_start[1]
    /\ Allowed

----------------------------------------------------------------------------
(* Properties of the session tracker and the administrative operations      *)

\* C3: login of an identity that exists and is active, with no secret or
\* with the stored secret, returns true and current() is then that
\* identity's record.  Stated of the older revision's login_user(email),
\* which takes no secret.
C3_dict_LoginSucceeds ==
    (/\ last.op = "login_user"
     /\ last.email \in DOMAIN users
     /\ users[last.email].active)
    => /\ last.ret = Return(TRUE)
       /\ dict_current_user = users[last.email]

\* C3, of AuthManager.login_user (it holds there)
C3_LoginSucceeds ==
    \A email \in Emails, password \in LoginPasswords :
        (/\ email \in DOMAIN users
         /\ users[email].active
         /\ (password = None \/ password = users[email].password))
        => LET o == login_user(email, password)
           IN  /\ o.ret = Return(TRUE)
               /\ current_user_of(o.users, o.current) = users[email]

\* a login with these arguments fails: the identity is absent or inactive,
\* or a secret is supplied that differs from the stored one
LoginFails(email, password) ==
    \/ email \notin DOMAIN users
    \/ ~users[email].active
    \/ (password # None /\ password # users[email].password)

\* C4: a failed login returns false and leaves the session anonymous,
\* whoever was logged in before: current() is none afterwards and the
\* identity store is unchanged.
C4_FailedLoginClearsSession ==
    \A email \in Emails, password \in LoginPasswords :
        LoginFails(email, password)
        => LET o == login_user(email, password)
           IN  /\ o.ret = Return(FALSE)
               /\ o.current = None
               /\ current_user_of(o.users, o.current) = NoUser
               /\ o.users = users

\* C4 witness: a login failed while another, still valid identity was
\* logged in, and the session is anonymous now
C4_Witness ==
    /\ last.op = "login_user"
    /\ last.ret = Return(FALSE)
    /\ last.prev # None
    /\ last.prev # last.email
    /\ current_user_of(users, last.prev) # NoUser
    /\ current_user_email = None

\* the call raised PermissionError from a role test (not from login_req) and
\* changed neither the store nor the session pointer
Forbidden(o) ==
    /\ o.ret.exc = "PermissionError"
    /\ o.ret.msg # "Authentication required."
    /\ o.users = users
    /\ o.current = current_user_email

\* every administrative operation, with any arguments, is refused
AllAdminOperationsForbidden ==
    /\ \A email \in Emails, password \in NewPasswords, role \in RoleArgs :
         Forbidden(admin_create_user(email, password, role))
    /\ \A email \in Emails :
         /\ Forbidden(admin_deactivate_user(email))
         /\ Forbidden(admin_delete_user(email))
    /\ \A email \in Emails, password \in NewPasswords, cams \in CameraLists,
          access_start \in Times, access_end \in Times :
         Forbidden(homeowner_create_guest(email, password, cams, access_start, access_end))
    /\ \A email \in Emails, password \in SharePasswords, cams \in CameraLists :
         Forbidden(homeowner_share_camera_with_family(email, password, cams))

\* the session pointer names an identity that is gone or inactive
StaleSession ==
    /\ current_user_email # None
    /\ \/ current_user_email \notin DOMAIN users
       \/ ~users[current_user_email].active

\* C5: once the logged-in identity is deactivated or deleted, with no logout
\* call, current() is none, login_req fails and every role-gated
\* administrative operation fails.
C5_RevokedSession ==
    StaleSession
    => /\ current_user = NoUser
       /\ login_req.ret = Raise("PermissionError", "Authentication required.")
       /\ AllAdminOperationsForbidden

\* C5 witness: the logged-in admin has just deactivated its own account
C5_Witness ==
    /\ last.op = "admin_deactivate_user"
    /\ last.ret.exc = ""
    /\ last.email = current_user_email
    /\ last.prev = current_user_email
    /\ ~users[current_user_email].active

\* C6: an administrative operation whose caller has not the role it asks for
\* (an anonymous session included) fails with the role test's
\* PermissionError and leaves store and session pointer as they were,
\* whether or not the target exists.
C6_RoleCheckedFirst ==
    /\ ~is_admin(current_user)
       => /\ \A email \in Emails, password \in NewPasswords, role \in RoleArgs :
               Forbidden(admin_create_user(email, password, role))
          /\ \A email \in Emails :
               /\ Forbidden(admin_deactivate_user(email))
               /\ Forbidden(admin_delete_user(email))
    /\ ~is_homeowner(current_user)
       => /\ \A email \in Emails, password \in NewPasswords, cams \in CameraLists,
                access_start \in Times, access_end \in Times :
               Forbidden(homeowner_create_guest(email, password, cams,
                                                access_start, access_end))
          /\ \A email \in Emails, password \in SharePasswords, cams \in CameraLists :
               Forbidden(homeowner_share_camera_with_family(email, password, cams))

\* C6 witness: a logged-in Homeowner asked to delete an identity that does
\* not exist and was refused for its role
C6_Witness ==
    /\ last.op = "admin_delete_user"
    /\ last.ret.exc = "PermissionError"
    /\ last.email \notin DOMAIN users
    /\ is_homeowner(current_user)

\* the call raised ValueError with one of the given messages and changed
\* neither the store nor the session pointer
Rejected(o, msgs) ==
    /\ o.ret.exc = "ValueError"
    /\ o.ret.msg \in msgs
    /\ o.users = users
    /\ o.current = current_user_email

\* C7: with a caller of the right role, admin_create_user and
\* homeowner_create_guest on an existing id fail as duplicates, and
\* admin_deactivate_user and admin_delete_user on an absent id fail as not
\* found; store and session are unchanged.
C7_DuplicateAndNotFound ==
    /\ is_admin(current_user)
       => /\ \A email \in DOMAIN users, password \in NewPasswords, role \in RoleArgs :
               Rejected(admin_create_user(email, password, role),
                        {"User already exists."})
          /\ \A email \in Emails \ DOMAIN users :
               /\ Rejected(admin_deactivate_user(email), {"User not found."})
               /\ Rejected(admin_delete_user(email), {"User not found."})
    /\ is_homeowner(current_user)
       => \A email \in DOMAIN users, password \in NewPasswords, cams \in CameraLists,
             access_start \in Times, access_end \in Times :
               Rejected(homeowner_create_guest(email, password, cams,
                                               access_start, access_end),
                        {"Guest email already exists."})

\* C7 witness: a Homeowner's homeowner_create_guest on the admin's id was
\* rejected as a duplicate and the admin's record is as it was at bootstrap
C7_Witness ==
    /\ last.op = "homeowner_create_guest"
    /\ last.ret.exc = "ValueError"
    /\ last.email = AdminEmail
    /\ is_homeowner(current_user)
    /\ users_get(users, AdminEmail) = BootstrapUsers[AdminEmail]

----------------------------------------------------------------------------
(* More properties of the permission engine (PermSpec)                      *)

NamedRoles == {ROLE_ADMIN, ROLE_HOMEOWNER, ROLE_FAMILY, ROLE_GUEST}
NamedActions == {"live", "playback", "settings", "user_mgmt"}

\* C11: for an active user whose role is Admin, the check is allowed for
\* every camera, every time and every action, actions outside the four named
\* ones included (both revisions).
C11_AdminAllowed ==
    IsViewBy(ROLE_ADMIN)
    => last.ret.value = Allow("Administrator access granted.")

\* C11 witness: an active Admin was allowed an action outside the named four
C11_Witness ==
    /\ last.op = "can_view_camera"
    /\ IsViewBy(ROLE_ADMIN)
    /\ last.action \notin NamedActions
    /\ Allowed

\* C12: the check is total and denies by default: for every user (a role
\* outside the four included), camera, time and action (one outside the four
\* included) the result is a (boolean, reason) pair, and for an active user
\* that is not Admin an unrecognised role or an unrecognised action is
\* denied (both revisions).
C12_TotalDefaultDeny ==
    IsView
    => /\ DOMAIN last.ret.value = {"allowed", "reason"}
       /\ last.ret.value.allowed \in BOOLEAN
       /\ (/\ last.user # NoUser
           /\ last.user.active
           /\ last.user.role # ROLE_ADMIN
           /\ (last.user.role \notin NamedRoles \/ last.action \notin NamedActions))
          => ~Allowed

\* C12 witness: an active Homeowner asked for an action outside the named
\* four on a camera it owns and was denied by the last return
C12_Witness ==
    /\ last.op = "can_view_camera"
    /\ IsViewBy(ROLE_HOMEOWNER)
    /\ last.action \notin NamedActions
    /\ In(last.camera_id, last.user.cameras)
    /\ last.ret.value = Deny("Unknown role - access denied.")

----------------------------------------------------------------------------
(* More properties of the administrative operations                         *)

\* the passwords a caller may hand to an operation that takes one
AnyPasswords == NewPasswords \cup SharePasswords

\* what homeowner_share_camera_with_family(email, password, cams), called by
\* a Homeowner, must leave behind (o), given the store before it (us)
ShareEffect(us, cur, o, email, password, cams) ==
    /\ o.ret.exc = ""
    /\ DOMAIN o.users = DOMAIN us \cup {email}
    /\ o.ret.value = o.users[email]
    /\ o.users[email].role = ROLE_FAMILY
    /\ o.users[email].allowed_cameras = cams
    /\ IF email \in DOMAIN us
       THEN /\ o.users[email].password = us[email].password
            /\ o.users[email].active = us[email].active
            /\ o.users[email].cameras = us[email].cameras
            /\ o.users[email].access_start = us[email].access_start
            /\ o.users[email].access_end = us[email].access_end
       ELSE /\ o.users[email].password = password
            /\ o.users[email].active = TRUE
    /\ \A other \in DOMAIN us \ {email} : o.users[other] = us[other]
    /\ o.current = cur

\* C13: homeowner_share_camera_with_family called by a Homeowner: on an
\* existing id the role becomes Family and the shared cameras become exactly
\* the given ones, while secret, active flag, owned cameras and window stay
\* and the supplied secret plays no part; on an absent id a new active Family
\* record with the supplied secret and cameras is made; every other record
\* and the session pointer are unchanged and the record is returned.
C13_ShareWithFamily ==
    is_homeowner(current_user)
    => \A email \in Emails, password \in AnyPasswords, cams \in CameraLists :
         ShareEffect(users, current_user_email,
                     homeowner_share_camera_with_family(email, password, cams),
                     email, password, cams)

\* C13, of the older revision's homeowner_share_camera_with_family (DictSpec)
C13_dict_ShareWithFamily ==
    dict_is_homeowner(dict_current_user)
    => \A email \in Emails, password \in AnyPasswords, cams \in CameraLists :
         ShareEffect(users, current_user_email,
                     dict_homeowner_share_camera_with_family(email, password, cams),
                     email, password, cams)

\* C13 witness: a Guest's id was shared with: it is a Family record now that
\* still carries the Guest's window and the Guest's secret, not the supplied one
C13_Witness ==
    /\ last.op = "homeowner_share_camera_with_family"
    /\ last.ret.exc = ""
    /\ users[last.email].role = ROLE_FAMILY
    /\ users[last.email].access_start # NoneInt
    /\ users[last.email].password \in NewPasswords
    /\ users[last.email].password \notin SharePasswords
    /\ last.ret.value = users[last.email]

----------------------------------------------------------------------------
(* The web layer (src/app.py): one browser's requests to the Flask routes,  *)
(* which share the module-level auth_manager with every other caller of     *)
(* the AuthManager.  A form carries an e-mail without surrounding blanks,   *)
(* so strip() returns it as it is, and a password that is a string.         *)

CAMERA_ENDPOINTS == {"main_cam"}

WebCameras == Cameras \cup CAMERA_ENDPOINTS

FormPasswords == LoginPasswords \ {None}

\* redirect(url_for(endpoint))
Redirect(endpoint) == [status |-> 302, location |-> endpoint]

\* render_template(template, **context)
Render(template, context) == [status |-> 200, template |-> template, context |-> context]

\* return body, status
Status(body, status) == [status |-> status, body |-> body]

\* get_current_user: the store's record of the session's e-mail, whatever
\* its active flag
get_current_user ==
    IF session_user_email = None THEN NoUser ELSE users_get(users, session_user_email)

\* a request answered without a change of state
Respond(op, arg, response) ==
    /\ last' = [op |-> op, email |-> arg, prev |-> current_user_email,
                ret |-> Return(response)]
    /\ UNCHANGED <<users, current_user_email, session_user_email, resolved>>

\* GET /login
WebLoginForm ==
    Respond("GET /login", None, Render("login.html", [error |-> None, user |-> NoUser]))

\* POST /login
WebLogin ==
    \E email \in Emails, password \in FormPasswords :
        LET o  == login_user(email, password)
            ok == o.ret.value
        IN  /\ users' = o.users
            /\ current_user_email' = o.current
            /\ session_user_email' = IF ok THEN email ELSE session_user_email
            /\ UNCHANGED resolved
            /\ last' = [op |-> "POST /login", email |-> email,
                        prev |-> current_user_email,
                        ret |-> Return(IF ok
                                       THEN Redirect("index")
                                       ELSE Render("login.html",
                                                   [error |-> "Invalid email or password",
                                                    user |-> NoUser]))]

\* GET /, behind login_required
index ==
    LET user == get_current_user
    IN  IF user = NoUser
        THEN Redirect("login")
        ELSE Render("index.html", [user |-> user, camera_url |-> "main_cam"])

WebIndex == Respond("GET /", None, index)

\* GET /camera/<camera_id>, behind login_required and
\* camera_access_required(action="live"); now is int(time.time())
camera_view(camera_id, now) ==
    LET user == get_current_user
        res  == can_view_camera(user, camera_id, now, "live")
    IN  IF user = NoUser
        THEN Redirect("login")
        ELSE IF ~res.allowed
        THEN Status(<<"Access denied: ", res.reason>>, 403)
        ELSE IF camera_id \notin CAMERA_ENDPOINTS
        THEN Status("Unknown camera", 404)
        ELSE Render("camera.html", [user |-> user, camera_id |-> camera_id,
                                    camera_url |-> camera_id])

WebCameraView ==
    \E camera_id \in WebCameras, now \in NowTimes :
        Respond("GET /camera", camera_id, camera_view(camera_id, now))

\* GET /logout: the browser's session forgets the e-mail; the AuthManager's
\* logout_user is not called
WebLogout ==
    /\ session_user_email' = None
    /\ last' = [op |-> "GET /logout", email |-> None, prev |-> current_user_email,
                ret |-> Return(Redirect("login"))]
    /\ UNCHANGED <<users, current_user_email, resolved>>

WebInit == Init

\* the browser's requests, and calls that other clients of the same
\* auth_manager make: a login, and an administrator's deactivation, deletion
\* and sharing
WebNext ==
    \/ WebLoginForm
    \/ WebLogin
    \/ WebIndex
    \/ WebCameraView
    \/ WebLogout
    \/ LoginUser
    \/ AdminDeactivateUser
    \/ AdminDeleteUser
    \/ HomeownerShareCameraWithFamily

WebSpec == WebInit /\ [][WebNext]_vars

----------------------------------------------------------------------------
(* The web layer's view of a deactivated or deleted identity                *)

\* the browser's session names an identity that the store does not hold
SessionNamesDeleted ==
    session_user_email # None /\ session_user_email \notin DOMAIN users

\* the browser's session names an identity whose record is inactive
SessionNamesDeactivated ==
    /\ session_user_email \in DOMAIN users
    /\ ~users[session_user_email].active

\* C18: a request for the index page, a login_required route, whose session
\* names an identity that was deactivated or deleted in the AuthManager is
\* redirected to login and not served.
C18_InactiveSessionRedirected ==
    (last.op = "GET /" /\ (SessionNamesDeleted \/ SessionNamesDeactivated))
    => last.ret.value = Redirect("login")

\* C18, the part that holds: a session naming a deleted identity is
\* redirected to login on both login_required routes
C18_DeletedSessionRedirected ==
    (last.op \in {"GET /", "GET /camera"} /\ SessionNamesDeleted)
    => last.ret.value = Redirect("login")

\* C18, the camera route: a session naming a deactivated identity is not
\* served the camera page (can_view_camera denies it with status 403)
C18_DeactivatedDeniedCamera ==
    (last.op = "GET /camera" /\ SessionNamesDeactivated)
    => last.ret.value = Status(<<"Access denied: ", "You must be logged in.">>, 403)

----------------------------------------------------------------------------
(* A permission check interleaved with administrative calls: a caller       *)
(* resolves the user (AuthManager.current_user, or app.py's                 *)
(* get_current_user in camera_access_required), other callers of the same   *)
(* AuthManager run, and then the caller evaluates can_view_camera on the     *)
(* object it holds.  Nothing in the code serialises the two.                 *)

\* user = auth_manager.current_user()
RaceResolve ==
    /\ resolved' = IF current_user = NoUser THEN NoRef ELSE Ref(current_user)
    /\ last' = [op |-> "current_user", email |-> None, prev |-> current_user_email,
                ret |-> Return(current_user)]
    /\ UNCHANGED <<users, current_user_email, session_user_email>>

\* camera_access_required: user = get_current_user()
RaceGetCurrentUser ==
    /\ resolved' = IF get_current_user = NoUser THEN NoRef ELSE Ref(get_current_user)
    /\ last' = [op |-> "get_current_user", email |-> None, prev |-> current_user_email,
                ret |-> Return(get_current_user)]
    /\ UNCHANGED <<users, current_user_email, session_user_email>>

\* can_view_camera(user, camera_id, now, action) on the object held
RaceCanViewCamera ==
    \E camera_id \in Cameras, current_time \in NowTimes, action \in Actions :
        /\ last' = ViewCall("can_view_camera", resolved.user, camera_id, current_time,
                            action,
                            can_view_camera(resolved.user, camera_id, current_time,
                                            action))
        /\ UNCHANGED <<users, current_user_email, session_user_email, resolved>>

RaceInit == Init

RaceNext ==
    \/ RaceResolve
    \/ RaceGetCurrentUser
    \/ RaceCanViewCamera
    \/ WebLogin
    \/ AdminDeactivateUser
    \/ AdminDeleteUser

RaceSpec == RaceInit /\ [][RaceNext]_vars

----------------------------------------------------------------------------
(* Properties of every step of the AuthManager                              *)

\* the step just taken was a successful call of method op
Succeeded(op) == last'.op = op /\ last'.ret.exc = ""

\* C14: the role of an identity that stays in the store changes only in a
\* successful homeowner_share_camera_with_family on that identity, and then
\* to Family; login, logout, deactivate and a create on a duplicate id leave
\* every role as it is (can_view_camera writes nothing at all).
C14_RoleChangesOnlyByShare ==
    [][\A email \in DOMAIN users \cap DOMAIN users' :
          users'[email].role # users[email].role
          => /\ Succeeded("homeowner_share_camera_with_family")
             /\ last'.email = email
             /\ users'[email].role = ROLE_FAMILY]_vars

\* C14 witness: the bootstrap Homeowner's id was shared with and holds the
\* role Family now
C14_Witness ==
    /\ last.op = "homeowner_share_camera_with_family"
    /\ last.ret.exc = ""
    /\ last.email = HomeownerEmail
    /\ users[HomeownerEmail].role = ROLE_FAMILY
    /\ users[HomeownerEmail].cameras # <<>>

\* C15: a successful admin_deactivate_user leaves the record in the store
\* with active = false and every can_view_camera for it denied; for a record
\* with active = false every login returns false and leaves the session
\* anonymous, no call sets active back to true, and only a successful
\* admin_delete_user on that id removes the record.
C15_DeactivationIsSoftAndSticky ==
    [][/\ Succeeded("admin_deactivate_user")
          => /\ last'.email \in DOMAIN users
             /\ users' = [users EXCEPT ![last'.email].active = FALSE]
             /\ last'.ret = Return(users'[last'.email])
             /\ \A camera_id \in Cameras, current_time \in NowTimes, action \in Actions :
                  ~can_view_camera(users'[last'.email], camera_id, current_time,
                                   action).allowed
       /\ \A email \in DOMAIN users :
            ~users[email].active
            => /\ (last'.op = "login_user" /\ last'.email = email)
                  => /\ last'.ret = Return(FALSE)
                     /\ current_user_email' = None
               /\ IF email \in DOMAIN users'
                  THEN ~users'[email].active
                  ELSE Succeeded("admin_delete_user") /\ last'.email = email]_vars

\* C15 witness: a deactivated id was shared with and is inactive still
C15_Witness ==
    /\ last.op = "homeowner_share_camera_with_family"
    /\ last.ret.exc = ""
    /\ users[last.email].role = ROLE_FAMILY
    /\ ~users[last.email].active

\* C16: current() is a user only after a successful login of that user that
\* no login or logout call has followed, and only while that user stayed
\* present and active: a call leaves current() a user only if it is a
\* successful login of that (present, active) user, or is no login/logout call
\* and current() was that same session's user before it.  logout leaves
\* current() none and the store as it was.  A session whose identity was
\* deleted or deactivated stays without a current user over every call but a
\* login.
C16_SessionLifecycle ==
    [][/\ last'.op = "logout_user"
          => /\ current_user_email' = None
             /\ users' = users
             /\ current_user_of(users', current_user_email') = NoUser
       /\ current_user_of(users', current_user_email') # NoUser
          => \/ /\ last'.op = "login_user"
                /\ last'.ret = Return(TRUE)
                /\ current_user_email' = last'.email
                /\ last'.email \in DOMAIN users
                /\ users[last'.email].active
                /\ users' = users
             \/ /\ last'.op \notin {"login_user", "logout_user"}
                /\ current_user_email' = current_user_email
                /\ current_user # NoUser
       /\ (StaleSession /\ last'.op # "login_user")
          => current_user_of(users', current_user_email') = NoUser]_vars

\* C16 witness: after the logged-in admin deleted its own account a further
\* call was made, and there is still no current user
C16_Witness ==
    /\ StaleSession
    /\ current_user_email \notin DOMAIN users
    /\ last.op = "admin_create_user"
    /\ last.email = current_user_email
    /\ last.ret.exc = "PermissionError"
    /\ current_user = NoUser

\* the e-mail addresses whose record in store us has the role Admin
Admins(us) == {email \in DOMAIN us : us[email].role = ROLE_ADMIN}

\* C19: an identity with role Admin is the bootstrap admin or was made by a
\* successful admin_create_user called while current() was an Admin: a step
\* adds an Admin only in that way, so no call made by a Homeowner, Family,
\* Guest or anonymous session adds one.  (The only Admin of the initial store
\* is admin@system.local: C17.)
C19_NoEscalationToAdmin ==
    [][\A email \in Admins(users') \ Admins(users) :
          /\ Succeeded("admin_create_user")
          /\ last'.email = email
          /\ is_admin(current_user)
          /\ email \notin DOMAIN users
          /\ last'.ret.value = users'[email]]_vars

\* C19 witness: a logged-in Admin has made a second Admin
C19_Witness ==
    /\ last.op = "admin_create_user"
    /\ last.ret.exc = ""
    /\ last.email \in NewEmails
    /\ users[last.email].role = ROLE_ADMIN
    /\ last.prev = AdminEmail

\* the store before any call, written out
IsBootstrapStore(us) ==
    /\ DOMAIN us = {"homeowner@gmail.com", "admin@system.local"}
    /\ us["homeowner@gmail.com"].role = "homeowner"
    /\ us["homeowner@gmail.com"].password = "password123"
    /\ us["homeowner@gmail.com"].active
    /\ us["homeowner@gmail.com"].cameras = <<"front_door", "backyard", "basement">>
    /\ us["admin@system.local"].role = "admin"
    /\ us["admin@system.local"].active
    /\ us["admin@system.local"].cameras = <<>>

\* C17: before any call the store holds exactly two identities, both active:
\* the Homeowner homeowner@gmail.com owning front_door, backyard and basement,
\* and the Admin admin@system.local owning no camera, and the session is
\* anonymous; login_user("homeowner@gmail.com", "password123") then returns
\* true, and after it can_view_camera(current, "front_door", 0, "live") is
\* allowed and can_view_camera(current, "garage", 0, "live") is denied.
C17_BootstrapScenario ==
    /\ last.op = ""
       => /\ IsBootstrapStore(users)
          /\ current_user_email = None
          /\ current_user = NoUser
          /\ LET o == login_user("homeowner@gmail.com", "password123")
             IN  /\ o.ret = Return(TRUE)
                 /\ o.users = users
                 /\ current_user_of(o.users, o.current) = users["homeowner@gmail.com"]
    /\ (/\ last.op = "login_user"
        /\ last.email = "homeowner@gmail.com"
        /\ last.ret = Return(TRUE)
        /\ IsBootstrapStore(users))
       => /\ current_user = users["homeowner@gmail.com"]
          /\ can_view_camera(current_user, "front_door", 0, "live")
                = Allow("Homeowner access granted.")
          /\ can_view_camera(current_user, "garage", 0, "live")
                = Deny("Camera not part of your system.")

\* C17, the USERS dict of the older revision: the same two identities
C17_dict_BootstrapStore ==
    last.op = "" => IsBootstrapStore(users) /\ current_user_email = None

\* C17 witness: the first call was the Homeowner's login with password123
C17_Witness ==
    /\ last.op = "login_user"
    /\ last.email = "homeowner@gmail.com"
    /\ last.prev = None
    /\ last.ret = Return(TRUE)
    /\ IsBootstrapStore(users)
    /\ current_user_email = "homeowner@gmail.com"

\* C20: no operation invoked while current() is a Homeowner changes the role
\* of an identity whose role is Admin or Homeowner.
C20_HomeownerCannotDemote ==
    [][is_homeowner(current_user)
       => \A email \in DOMAIN users \cap DOMAIN users' :
            users[email].role \in {ROLE_ADMIN, ROLE_HOMEOWNER}
            => users'[email].role = users[email].role]_vars

----------------------------------------------------------------------------
(* Delegation of cameras by a Homeowner                                     *)

\* the last call was a successful homeowner_create_guest or
\* homeowner_share_camera_with_family
Delegated ==
    /\ last.op \in {"homeowner_create_guest", "homeowner_share_camera_with_family"}
    /\ last.ret.exc = ""

\* C21: every camera in the shared-cameras list that a Homeowner's
\* homeowner_create_guest or homeowner_share_camera_with_family has stored is
\* in the owned-cameras list of that Homeowner, and can_view_camera allows
\* the Guest or Family identity no camera outside that list.
C21_DelegationWithinOwned ==
    Delegated
    => LET owner == users[last.prev]
           delegate == users[last.email]
       IN  /\ \A i \in DOMAIN delegate.allowed_cameras :
                In(delegate.allowed_cameras[i], owner.cameras)
           /\ \A camera_id \in Cameras, current_time \in NowTimes, action \in Actions :
                can_view_camera(delegate, camera_id, current_time, action).allowed
                => In(camera_id, owner.cameras)

\* C21, a delegation of owned cameras only: the delegate is allowed none but
\* those
C21_OwnedDelegationWithinOwned ==
    (Delegated /\ users[last.email].allowed_cameras = <<"backyard">>)
    => \A camera_id \in Cameras, current_time \in NowTimes, action \in Actions :
         can_view_camera(users[last.email], camera_id, current_time, action).allowed
         => camera_id = "backyard"

----------------------------------------------------------------------------
(* A permission check on a user resolved before a revocation                *)

\* the identity the caller resolved has since been deleted from the store
ResolvedDeleted == resolved.user # NoUser /\ ~resolved.attached

\* the identity the caller resolved is deactivated
ResolvedDeactivated == resolved.user # NoUser /\ ~resolved.user.active

\* C22: when admin_deactivate_user or admin_delete_user on the identity a
\* caller has resolved completes before the caller's can_view_camera is
\* evaluated, that can_view_camera returns denied.
C22_RevokedNeverGranted ==
    (last.op = "can_view_camera" /\ (ResolvedDeleted \/ ResolvedDeactivated))
    => ~last.ret.value.allowed

\* C22, the part that holds: after a deactivation the check on the held
\* object is denied
C22_DeactivatedDenied ==
    (last.op = "can_view_camera" /\ ResolvedDeactivated)
    => last.ret.value = Deny("You must be logged in.")

====
